---- MODULE Spec2Model ----
(***************************************************************************)
(* A model of prefect-database-cleanup: the retention run of               *)
(* PrefectCleanup (cleanup_manager.py), the health check of                *)
(* DatabaseMonitor (monitoring.py), the backup files of BackupHandler      *)
(* (backup_handler.py), and the scripts that combine them: quick_cleanup   *)
(* (__init__.py) and the production workflow (examples/basic_usage.py).    *)
(*                                                                         *)
(* Time is counted in whole days.  A table is a bag of rows keyed by their *)
(* `created` value: tbl[c] is the number of rows of the table whose        *)
(* created column equals c.                                                *)
(***************************************************************************)
EXTENDS Integers, Sequences, FiniteSets, TLC

\* ------------------------------------------------------------------ bounds
\* The clock runs over 0..MaxTime.
MaxTime == 2
\* The largest retention window a caller passes to run.
MaxDays == 1
\* Rows that writers insert one by one (Spec).
MaxRows == 2

Times == 0..MaxTime
Days == 0..MaxDays

\* Backup files in backup_dir at a time.
MaxBackups == 3
\* The largest keep_count a caller passes, and the most negative one.
MaxKeep == 4

\* ------------------------------------------------------------------ state
VARIABLES
    now,      \* the clock: what datetime.now() returns
    db,       \* committed content: table -> bag of rows by created
    inserted, \* rows other clients have inserted so far
    pc,       \* where run is: "idle" | "deleting" | "commit" | "return"
    days,     \* run's argument
    cutoff,   \* run's cutoff_date
    idx,      \* the index in `tables` of the next DELETE of run's loop
    txn,      \* the content as the open connection of run sees it
    stats,    \* run's stats dict: a function on the tables deleted so far
    issued,   \* the statements run's connection has executed, in order
    call,     \* what was true when the call in progress began
    last,     \* the outcome of the last call of run, as its caller holds it
              \* until the content changes or run is called again
    health,   \* what the last health_check returned
    url,      \* db_url, the connection string
    srcExists,\* whether the file the connection string names exists
    files,    \* the *.backup files of backup_dir: name -> ctime and content
    bk        \* the outcome of the last call on the BackupHandler

runVars == <<pc, days, cutoff, idx, txn, stats, issued, call>>
bkVars == <<url, srcExists, files, bk>>
vars == <<now, db, inserted, pc, days, cutoff, idx, txn, stats, issued, call, last, health,
          url, srcExists, files, bk>>

\* ------------------------------------------------------- retention run
\* The list with a parent table ahead of its child.
tablesParentFirst ==
    <<"log", "task_run", "task_run_state", "flow_run_state", "flow_run",
      "event_resources", "events", "artifact">>

\* cleanup_manager.py: the list `tables` of run.
tables ==
    <<"log", "task_run_state", "task_run", "flow_run_state", "flow_run",
      "event_resources", "events", "artifact">>

TableNames == {tables[i] : i \in 1..Len(tables)}

EmptyTable == [c \in Times |-> 0]
EmptyDb == [t \in TableNames |-> EmptyTable]

RECURSIVE SumOver(_, _)
SumOver(f, S) ==
    IF S = {} THEN 0
    ELSE LET x == CHOOSE y \in S : TRUE IN f[x] + SumOver(f, S \ {x})

\* SELECT COUNT(*) FROM table
CountRows(tbl) == SumOver(tbl, DOMAIN tbl)

\* A WHERE clause that also matches the rows created at the cutoff.
MatchesInclusive(c, cut) == c <= cut

\* The WHERE clause of run's statement: created < :cutoff
Matches(c, cut) == c < cut

\* A rowcount that reports the table's size instead of the rows affected.
RowCountAll(tbl, cut) == SumOver(tbl, DOMAIN tbl)

\* result.rowcount of DELETE FROM table WHERE created < :cutoff
RowCount(tbl, cut) == SumOver(tbl, {c \in DOMAIN tbl : Matches(c, cut)})

\* A DELETE that removes only the oldest matching rows.
DeleteOldest(tbl, cut) ==
    LET hit == {c \in DOMAIN tbl : Matches(c, cut) /\ tbl[c] > 0} IN
    [c \in DOMAIN tbl |-> IF c \in hit /\ \A e \in hit : c <= e THEN 0 ELSE tbl[c]]

\* The table after DELETE FROM table WHERE created < :cutoff
DeleteOlder(tbl, cut) == [c \in DOMAIN tbl |-> IF Matches(c, cut) THEN 0 ELSE tbl[c]]

\* cutoff_date = datetime.now() - timedelta(days=days)
CutoffDate(t, d) == t - d

NoStats == [t \in {} |-> 0]

NoCall ==
    [status |-> "none", at |-> 0, days |-> 0, cutoff |-> 0, stats |-> NoStats,
     undone |-> FALSE, commits |-> 0, before |-> EmptyDb, repeats |-> FALSE,
     prevCutoff |-> 0]
NoFrame == [at |-> 0, before |-> EmptyDb, repeats |-> FALSE, prevCutoff |-> 0]
\* Connection strings, as the pieces the backup strategy looks at.
SqliteUrl == <<"sqlite", ":///", "prefect.db">>
AioSqliteUrl == <<"SQLite", "+aiosqlite", ":///", "prefect.db">>
PostgresUrl == <<"postgresql", "://", "host/", "prefect">>
PostgresSqliteUrl == <<"postgresql", "://", "host/", "sqlite">>
Urls == {SqliteUrl, AioSqliteUrl, PostgresUrl, PostgresSqliteUrl}
NoFiles == [n \in {} |-> 0]
NoBackupCall ==
    [op |-> "none", status |-> "none", name |-> <<"", 0>>, keep_count |-> 0,
     deleted_count |-> 0, before |-> NoFiles, strategy |-> "none", rc |-> 0,
     source |-> EmptyDb]

NoHealth ==
    [status |-> "none", table_counts |-> [n \in {} |-> 0], total_records |-> 0,
     needs_cleanup |-> FALSE, is_large |-> FALSE, recommendation |-> "", failed |-> {}]

Init ==
    /\ now = 0
    /\ db = EmptyDb
    /\ inserted = 0
    /\ pc = "idle"
    /\ days = 0
    /\ cutoff = 0
    /\ idx = 1
    /\ txn = EmptyDb
    /\ stats = NoStats
    /\ issued = <<>>
    /\ call = NoFrame
    /\ last = NoCall
    /\ health = NoHealth
    /\ url = SqliteUrl
    /\ srcExists = TRUE
    /\ files = NoFiles
    /\ bk = NoBackupCall

\* The clock advances by a day, whatever run is doing.
Tick ==
    /\ now < MaxTime
    /\ now' = now + 1
    /\ UNCHANGED <<db, inserted, runVars, last, health, bkVars>>

\* Another client of the database commits a row (created no later than now)
\* while no run is in progress.
Insert(t, c) ==
    /\ pc = "idle"
    /\ inserted < MaxRows
    /\ c <= now
    /\ db' = [db EXCEPT ![t][c] = @ + 1]
    /\ inserted' = inserted + 1
    /\ last' = NoCall
    /\ UNCHANGED <<now, runVars, health, bkVars>>

\* run(days): the cutoff is computed, stats is empty, the connection opens.
\* The call repeats the last one when that one succeeded with the same days
\* and no row was inserted since.
RunStart(d) ==
    /\ pc = "idle"
    /\ pc' = "deleting"
    /\ days' = d
    /\ cutoff' = CutoffDate(now, d)
    /\ idx' = 1
    /\ txn' = db
    /\ stats' = NoStats
    /\ issued' = <<>>
    /\ call' = [at |-> now, before |-> db,
                repeats |-> last.status = "ok" /\ last.days = d,
                prevCutoff |-> last.cutoff]
    /\ last' = NoCall
    /\ UNCHANGED <<now, db, inserted, health, bkVars>>

\* One pass of the loop: the DELETE on tables[idx] succeeds.
RunDelete ==
    /\ pc = "deleting"
    /\ idx <= Len(tables)
    /\ LET table == tables[idx] IN
        /\ txn' = [txn EXCEPT ![table] = DeleteOlder(@, cutoff)]
        /\ stats' = [t \in DOMAIN stats \cup {table} |->
                        IF t = table THEN RowCount(txn[table], cutoff) ELSE stats[t]]
        /\ issued' = Append(issued, [op |-> "DELETE", table |-> table, cutoff |-> cutoff])
    /\ idx' = idx + 1
    /\ pc' = IF idx = Len(tables) THEN "commit" ELSE "deleting"
    /\ UNCHANGED <<now, db, inserted, days, cutoff, call, last, health, bkVars>>

\* run's frame is gone once it has returned or raised.
RunExit ==
    /\ pc' = "idle"
    /\ days' = 0
    /\ cutoff' = 0
    /\ idx' = 1
    /\ txn' = EmptyDb
    /\ stats' = NoStats
    /\ issued' = <<>>
    /\ call' = NoFrame

\* The statements issued that are COMMITs.
Commits(seq) == Cardinality({i \in 1..Len(seq) : seq[i].op = "COMMIT"})

\* A close that commits what the connection had done so far.
RunDeleteFailCommitting ==
    /\ pc = "deleting"
    /\ idx <= Len(tables)
    /\ db' = txn
    /\ last' = [NoCall EXCEPT !.status = "error", !.at = call.at, !.days = days,
                               !.cutoff = cutoff, !.undone = txn # db,
                               !.commits = Commits(issued), !.before = call.before]
    /\ RunExit
    /\ UNCHANGED <<now, inserted, health, bkVars>>

\* The DELETE on tables[idx] raises: the exception leaves the with block,
\* the connection closes without a commit, which discards its transaction,
\* and the error reaches the caller of run.
RunDeleteFail ==
    /\ pc = "deleting"
    /\ idx <= Len(tables)
    /\ last' = [NoCall EXCEPT !.status = "error", !.at = call.at, !.days = days,
                               !.cutoff = cutoff, !.undone = txn # db,
                               !.commits = Commits(issued), !.before = call.before]
    /\ RunExit
    /\ UNCHANGED <<now, db, inserted, health, bkVars>>

\* conn.commit()
RunCommit ==
    /\ pc = "commit"
    /\ db' = txn
    /\ issued' = Append(issued, [op |-> "COMMIT"])
    /\ pc' = "return"
    /\ UNCHANGED <<now, inserted, days, cutoff, idx, txn, stats, call, last, health, bkVars>>

\* The with block ends and run returns stats.
RunReturn ==
    /\ pc = "return"
    /\ last' = [status |-> "ok", at |-> call.at, days |-> days, cutoff |-> cutoff,
                stats |-> stats, undone |-> FALSE, commits |-> Commits(issued),
                before |-> call.before,
                repeats |-> call.repeats, prevCutoff |-> call.prevCutoff]
    /\ RunExit
    /\ UNCHANGED <<now, db, inserted, health, bkVars>>

Next ==
    \/ Tick
    \/ \E t \in TableNames, c \in Times : Insert(t, c)
    \/ \E d \in Days : RunStart(d)
    \/ RunDelete
    \/ RunDeleteFail
    \/ RunCommit
    \/ RunReturn

Spec == Init /\ [][Next]_vars

\* -------------------------------------------------------- health check
\* A dict that sends three of the four names to another table.
healthTablesShifted ==
    [logs |-> "log", flow_runs |-> "flow_run_state", task_runs |-> "task_run_state",
     events |-> "event_resources"]

\* monitoring.py: the dict `tables` of health_check, name -> table.
healthTables ==
    [logs |-> "log", flow_runs |-> "flow_run", task_runs |-> "task_run",
     events |-> "events"]

\* An except clause that records 0 for the table.
SlotZeroOnError(name, failed) ==
    IF name \in failed
    THEN [int |-> TRUE, value |-> 0]
    ELSE [int |-> TRUE, value |-> CountRows(db[healthTables[name]])]

\* counts[name] after the try block: the scalar of SELECT COUNT( * ), or the
\* error string when the query raised.
Slot(name, failed) ==
    IF name \in failed
    THEN [int |-> FALSE, value |-> "Error"]
    ELSE [int |-> TRUE, value |-> CountRows(db[healthTables[name]])]

\* sum(v for v in counts.values() if isinstance(v, int))
SumInts(counts) ==
    SumOver([n \in DOMAIN counts |-> IF counts[n].int THEN counts[n].value ELSE 0],
            DOMAIN counts)

\* needs_cleanup = total_records > 100000
NeedsCleanup(total_records) == total_records > 100000

\* is_large = total_records > 500000
IsLarge(total_records) == total_records > 500000

\* A chain whose last comparison takes 1,000,000 into the weekly band.
GetRecommendationInclusive(total_records) ==
    IF total_records < 10000 THEN "Database is small and healthy"
    ELSE IF total_records < 100000 THEN "Database is growing but fine"
    ELSE IF total_records < 500000 THEN "Consider monthly cleanup (30 days retention)"
    ELSE IF total_records <= 1000000 THEN "Recommend weekly cleanup (7 days retention)"
    ELSE "URGENT: Database is very large, cleanup immediately"

\* monitoring.py: _get_recommendation
GetRecommendation(total_records) ==
    IF total_records < 10000 THEN "Database is small and healthy"
    ELSE IF total_records < 100000 THEN "Database is growing but fine"
    ELSE IF total_records < 500000 THEN "Consider monthly cleanup (30 days retention)"
    ELSE IF total_records < 1000000 THEN "Recommend weekly cleanup (7 days retention)"
    ELSE "URGENT: Database is very large, cleanup immediately"

\* health_check(), the COUNT queries of the names in `failed` raising.
HealthCheck(failed) ==
    /\ LET counts == [n \in DOMAIN healthTables |-> Slot(n, failed)]
           total_records == SumInts(counts)
       IN health' =
            [status |-> IF ~NeedsCleanup(total_records) THEN "healthy"
                        ELSE "attention_needed",
             table_counts |-> counts,
             total_records |-> total_records,
             needs_cleanup |-> NeedsCleanup(total_records),
             is_large |-> IsLarge(total_records),
             recommendation |-> GetRecommendation(total_records),
             failed |-> failed]
    /\ UNCHANGED <<now, db, inserted, runVars, last, bkVars>>

\* A table of n rows.
TableOf(n) == [c \in Times |-> IF c = 0 THEN n ELSE 0]

\* Databases of the sizes the thresholds of the health check separate.
InitHealth ==
    /\ now = 0
    /\ \E l \in {0, 1, 9999, 99999, 499999, 999999},
          f \in {0, 1, 2, 90000},
          t \in {0, 1},
          e \in {0, 1},
          o \in {0, 7} :
          db = [EmptyDb EXCEPT !["log"] = TableOf(l), !["flow_run"] = TableOf(f),
                               !["task_run"] = TableOf(t), !["events"] = TableOf(e),
                               !["task_run_state"] = TableOf(o),
                               !["event_resources"] = TableOf(o)]
    /\ inserted = 0
    /\ pc = "idle"
    /\ days = 0
    /\ cutoff = 0
    /\ idx = 1
    /\ txn = EmptyDb
    /\ stats = NoStats
    /\ issued = <<>>
    /\ call = NoFrame
    /\ last = NoCall
    /\ health = NoHealth
    /\ url = SqliteUrl
    /\ srcExists = TRUE
    /\ files = NoFiles
    /\ bk = NoBackupCall

NextHealth == \E failed \in SUBSET DOMAIN healthTables : HealthCheck(failed)

SpecHealth == InitHealth /\ [][NextHealth]_vars

\* ------------------------------------------------------ backup handler
Min(a, b) == IF a <= b THEN a ELSE b
Max(a, b) == IF a >= b THEN a ELSE b

\* str.lower() on a piece of the connection string.
Lower(piece) == IF piece = "SQLite" THEN "sqlite" ELSE piece

\* A test of the scheme alone: db_url.lower().startswith("sqlite")
IsSqliteScheme(u) == Len(u) >= 1 /\ Lower(u[1]) = "sqlite"

\* backup_handler.py: _is_sqlite, "sqlite" in self.db_url.lower()
IsSqlite(u) == \E i \in 1..Len(u) : Lower(u[i]) = "sqlite"

\* db_url.replace("sqlite:///", "").replace("sqlite://", ""): the prefix
\* goes only where the pieces "sqlite" and ":///" stand side by side.
DbFile(u) ==
    IF Len(u) >= 2 /\ u[1] = "sqlite" /\ u[2] = ":///" THEN SubSeq(u, 3, Len(u))
    ELSE u

\* A check that finds any source.
SourceExistsAlways(u) == TRUE

\* source_path.exists()
SourceExists(u) == DbFile(u) = <<"prefect.db">> /\ srcExists

\* The names a caller gives, and the name create derives from the clock:
\* prefect_backup_<timestamp>.
GivenNames == {<<"nightly", 0>>}
TimestampName(t) == <<"prefect_backup", t>>
NoName == <<"", 0>>

\* Exit codes of pg_dump.
ExitCodes == {0, 1, 2}

\* The outcome of a call, with the files and the database content it found.
BackupCall(op, status, name, keep, deleted, before) ==
    [op |-> op, status |-> status, name |-> name, keep_count |-> keep,
     deleted_count |-> deleted, before |-> before, strategy |-> "none", rc |-> 0,
     source |-> db]

\* What a pg_dump that failed midway leaves in its output file: no table
\* complete.
PartialDump == [t \in TableNames |-> <<>>]

\* A copy that leaves an empty file behind.
WriteFileEmpty(name, content) ==
    [n \in DOMAIN files \cup {name} |->
        IF n = name THEN [ctime |-> now, content |-> EmptyDb] ELSE files[n]]

WriteFile(name, content) ==
    [n \in DOMAIN files \cup {name} |->
        IF n = name THEN [ctime |-> now, content |-> content] ELSE files[n]]

\* create(name): arg is NoName for create().  The file copy for a file-based
\* database, pg_dump otherwise; pg_dump exits with rc and, when it fails,
\* may or may not have written its output file.
Create(arg, rc, wrote) ==
    LET name == IF arg = NoName THEN TimestampName(now) ELSE arg
        copy(status) == [BackupCall("create", status, name, 0, 0, files)
                            EXCEPT !.strategy = "copy"]
        dump(status) == [BackupCall("create", status, name, 0, 0, files)
                            EXCEPT !.strategy = "dump", !.rc = rc]
    IN
    /\ name \in DOMAIN files \/ Cardinality(DOMAIN files) < MaxBackups
    /\ IF IsSqlite(url)
       THEN /\ rc = 0
            /\ ~wrote
            /\ IF ~SourceExists(url)
               THEN /\ bk' = copy("FileNotFoundError")
                    /\ files' = files
               ELSE /\ files' = WriteFile(name, db)
                    /\ bk' = copy("ok")
       ELSE IF rc # 0
            THEN /\ bk' = dump("RuntimeError")
                 /\ files' = IF wrote THEN WriteFile(name, PartialDump) ELSE files
            ELSE /\ ~wrote
                 /\ files' = WriteFile(name, db)
                 /\ bk' = dump("ok")
    /\ UNCHANGED <<now, db, inserted, runVars, last, health, url, srcExists>>

\* The database file is moved or deleted.
SourceRemoved ==
    /\ SourceExists(url)
    /\ srcExists' = FALSE
    /\ UNCHANGED <<now, db, inserted, runVars, last, health, url, files, bk>>

\* list_backups()["total_backups"]
TotalBackups(F) == Cardinality(DOMAIN F)

\* The orders sorted(..., key=st_ctime, reverse=True) can give the files of
\* F: newest first, files of equal ctime in the order glob yields them.
SortedNewestFirst(F) ==
    LET n == Cardinality(DOMAIN F) IN
    {o \in [1..n -> DOMAIN F] :
        /\ \A i, j \in 1..n : i # j => o[i] # o[j]
        /\ \A i, j \in 1..n : i < j => F[o[i]].ctime >= F[o[j]].ctime}

\* A slice that takes what follows the first k + 1 files.
SliceFromNext(seq, k) ==
    LET len == Len(seq)
        start == IF k >= 0 THEN Min(k + 1, len) ELSE Max(len + k, 0)
    IN SubSeq(seq, start + 1, len)

\* Python's seq[k:]
SliceFrom(seq, k) ==
    LET len == Len(seq)
        start == IF k >= 0 THEN Min(k, len) ELSE Max(len + k, 0)
    IN SubSeq(seq, start + 1, len)

\* cleanup_old_backups(keep_count)
CleanupOldBackups(keep_count) ==
    \E backup_files \in SortedNewestFirst(files) :
        LET doomed == SliceFrom(backup_files, keep_count)
            gone == {doomed[i] : i \in 1..Len(doomed)}
        IN /\ files' = [n \in DOMAIN files \ gone |-> files[n]]
           /\ bk' = BackupCall("cleanup", "ok", NoName, keep_count, Len(doomed), files)
           /\ UNCHANGED <<now, db, inserted, runVars, last, health, url, srcExists>>

KeepCounts == (0 - MaxKeep)..MaxKeep

\* A handler on any of the connection strings, over a database of two rows.
InitBackup ==
    /\ now = 0
    /\ db = [EmptyDb EXCEPT !["log"][0] = 1, !["flow_run"][0] = 1]
    /\ inserted = 0
    /\ pc = "idle"
    /\ days = 0
    /\ cutoff = 0
    /\ idx = 1
    /\ txn = EmptyDb
    /\ stats = NoStats
    /\ issued = <<>>
    /\ call = NoFrame
    /\ last = NoCall
    /\ health = NoHealth
    /\ url \in Urls
    /\ srcExists \in BOOLEAN
    /\ files = NoFiles
    /\ bk = NoBackupCall

NextBackup ==
    \/ Tick
    \/ \E arg \in GivenNames \cup {NoName}, rc \in ExitCodes, wrote \in BOOLEAN :
          Create(arg, rc, wrote)
    \/ \E k \in KeepCounts : CleanupOldBackups(k)
    \/ SourceRemoved

SpecBackup == InitBackup /\ [][NextBackup]_vars

\* -------------------------------------------------------------- scripts
\* The databases a script finds: log rows of day 0 and day 1, a flow run of
\* day 0.
ScriptDbs ==
    {[EmptyDb EXCEPT !["log"][0] = a, !["log"][1] = b, !["flow_run"][0] = c] :
        a \in 0..1, b \in 0..1, c \in 0..1}

\* A script starts on day 1 with an empty backup directory.
InitScript ==
    /\ now = 1
    /\ db \in ScriptDbs
    /\ inserted = 0
    /\ pc = "idle"
    /\ days = 0
    /\ cutoff = 0
    /\ idx = 1
    /\ txn = EmptyDb
    /\ stats = NoStats
    /\ issued = <<>>
    /\ call = NoFrame
    /\ last = NoCall
    /\ health = NoHealth
    /\ url \in Urls
    /\ srcExists \in BOOLEAN
    /\ files = NoFiles
    /\ bk = NoBackupCall

\* A quick_cleanup that goes on to run when create has raised.
QuickBackupDoneOrRaised == bk.op # "none"

\* __init__.py: quick_cleanup reaches cleanup.run when backup is False or
\* backup_handler.create() has returned; an exception of create leaves
\* quick_cleanup.
QuickBackupDone == bk.op = "skipped" \/ (bk.op = "create" /\ bk.status = "ok")

\* quick_cleanup(days, backup=True): backup_handler.create()
QuickBackup ==
    /\ bk.op = "none"
    /\ \E rc \in ExitCodes, wrote \in BOOLEAN : Create(NoName, rc, wrote)

\* quick_cleanup(days, backup=False): no backup is taken.
QuickSkipBackup ==
    /\ bk.op = "none"
    /\ bk' = [NoBackupCall EXCEPT !.op = "skipped"]
    /\ UNCHANGED <<now, db, inserted, runVars, last, health, url, srcExists, files>>

\* quick_cleanup: stats = cleanup.run(days=days)
QuickRun(d) ==
    /\ QuickBackupDone
    /\ last.status = "none"
    /\ RunStart(d)

NextQuick ==
    \/ Tick
    \/ QuickBackup
    \/ QuickSkipBackup
    \/ \E d \in Days : QuickRun(d)
    \/ RunDelete
    \/ RunDeleteFail
    \/ RunCommit
    \/ RunReturn

SpecQuick == InitScript /\ [][NextQuick]_vars

\* The keep_count of the production workflow.
ProductionKeep == 5

\* example_4_production_workflow, step 1: monitor.health_check()
ProductionHealth(failed) ==
    /\ health.status = "none"
    /\ bk.op = "none"
    /\ HealthCheck(failed)

\* Step 1 when engine.connect() raises: the exception leaves health_check.
ProductionHealthRaises ==
    /\ health.status = "none"
    /\ bk.op = "none"
    /\ health' = [NoHealth EXCEPT !.status = "error"]
    /\ UNCHANGED <<now, db, inserted, runVars, last, bkVars>>

\* Step 2: backup.create()
ProductionBackup ==
    /\ health.status \notin {"none", "error"}
    /\ bk.op = "none"
    /\ \E rc \in ExitCodes, wrote \in BOOLEAN : Create(NoName, rc, wrote)

\* Step 3: cleanup.run(days=retention_days); the length of the window in
\* days of the model is drawn from Days.
ProductionRun(d) ==
    /\ bk.op = "create"
    /\ bk.status = "ok"
    /\ last.status = "none"
    /\ RunStart(d)

\* Step 4: backup.cleanup_old_backups(keep_count=5)
ProductionPrune ==
    /\ bk.op = "create"
    /\ last.status = "ok"
    /\ CleanupOldBackups(ProductionKeep)

\* A step has raised and the except clause of the workflow runs.
HandlerReached ==
    \/ health.status = "error"
    \/ bk.op = "create" /\ bk.status # "ok"
    \/ last.status = "error"

NextProduction ==
    \/ Tick
    \/ \E failed \in SUBSET DOMAIN healthTables : ProductionHealth(failed)
    \/ ProductionHealthRaises
    \/ ProductionBackup
    \/ \E d \in Days : ProductionRun(d)
    \/ RunDelete
    \/ RunDeleteFail
    \/ RunCommit
    \/ RunReturn
    \/ ProductionPrune

SpecProduction == InitScript /\ [][NextProduction]_vars

\* --------------------------------------------------- backup during a run
\* A copy that reads every table from the content it found when it began.
ChunkOfSnapshot(t) == bk.source[t]

\* shutil.copy2 reads the source file piece by piece, each piece as the file
\* is at that moment; a piece is the rows of one table.
Chunk(t) == db[t]

\* The order in which the pieces of the file are read.
copyOrder == tables

\* create(name) on a file-based database, up to the opening of the two files
\* by shutil.copy2: the backup file exists and is empty.
CopyStart(arg) ==
    LET name == IF arg = NoName THEN TimestampName(now) ELSE arg IN
    /\ bk.op = "none"
    /\ IsSqlite(url)
    /\ SourceExists(url)
    /\ files' = WriteFile(name, <<>>)
    /\ bk' = [BackupCall("create", "copying", name, 0, 0, files)
                 EXCEPT !.strategy = "copy"]
    /\ UNCHANGED <<now, db, inserted, runVars, last, health, url, srcExists>>

\* shutil.copy2 copies the next piece.
CopyChunk ==
    /\ bk.op = "create"
    /\ bk.status = "copying"
    /\ LET done == files[bk.name].content
           k == Cardinality(DOMAIN done)
       IN /\ k < Len(copyOrder)
          /\ files' = [files EXCEPT ![bk.name].content =
                          [t \in DOMAIN done \cup {copyOrder[k + 1]} |->
                              IF t = copyOrder[k + 1] THEN Chunk(t) ELSE done[t]]]
    /\ UNCHANGED <<now, db, inserted, runVars, last, health, url, srcExists, bk>>

\* The last piece is copied: create returns str(backup_path).
CopyEnd ==
    /\ bk.op = "create"
    /\ bk.status = "copying"
    /\ DOMAIN files[bk.name].content = TableNames
    /\ bk' = [bk EXCEPT !.status = "ok"]
    /\ UNCHANGED <<now, db, inserted, runVars, last, health, url, srcExists, files>>

\* One retention run and one backup of the same file-based database, each
\* in its own process.
InitConcurrent ==
    /\ InitScript
    /\ url = SqliteUrl
    /\ srcExists

\* run(d), once.
ConcurrentRun(d) ==
    /\ last.status = "none"
    /\ RunStart(d)

NextConcurrent ==
    \/ Tick
    \/ \E arg \in GivenNames \cup {NoName} : CopyStart(arg)
    \/ CopyChunk
    \/ CopyEnd
    \/ \E d \in Days : ConcurrentRun(d)
    \/ RunDelete
    \/ RunDeleteFail
    \/ RunCommit
    \/ RunReturn

SpecConcurrent == InitConcurrent /\ [][NextConcurrent]_vars

\* ---------------------------------------------------- retention claims
\* Rows of tbl with lo <= created < hi.
RowsBetween(tbl, lo, hi) == SumOver(tbl, {c \in DOMAIN tbl : lo <= c /\ c < hi})

\* C1: after run(d) has returned, with cutoff = call time - d, no table
\* holds a row created before the cutoff, and every row created at or after
\* the cutoff that was there before the call is still there.
C1_RetentionCutoff ==
    last.status = "ok" =>
        /\ last.cutoff = last.at - last.days
        /\ DOMAIN db = TableNames
        /\ \A t \in TableNames : \A c \in Times :
              /\ c < last.cutoff => db[t][c] = 0
              /\ c >= last.cutoff => db[t][c] = last.before[t][c]

\* A run that returned after deleting some rows of a table and keeping others.
C1_Witness ==
    /\ last.status = "ok"
    /\ \E t \in TableNames : last.stats[t] > 0 /\ CountRows(db[t]) > 0

\* C2: when a DELETE of run fails, wherever in the order, the error reaches
\* the caller with no commit issued and nothing returned, the committed
\* content of the eight tables is what it was before the call, and run is
\* over: it issues no further statement.
C2_AllOrNothing ==
    /\ pc \in {"deleting", "commit"} => (db = call.before /\ Commits(issued) = 0)
    /\ last.status = "error" =>
          /\ db = last.before
          /\ last.commits = 0
          /\ last.stats = NoStats
          /\ pc = "idle"
          /\ issued = <<>>

\* A failed run whose earlier deletes had removed rows: they are back.
C2_Witness ==
    /\ last.status = "error"
    /\ last.undone
    /\ \E t \in TableNames : RowsBetween(db[t], 0, last.cutoff) > 0

\* C3 as amended: a run(d) right after a successful run(d), no row inserted
\* in between, deletes exactly the rows created at or after the first
\* call's cutoff and before its own; when the two cutoffs are equal it
\* deletes nothing, returns 0 for every table and leaves the content as it was.
C3_RepeatDeletesAgedRows ==
    (last.status = "ok" /\ last.repeats) =>
        /\ \A t \in TableNames :
              last.stats[t] = RowsBetween(last.before[t], last.prevCutoff, last.cutoff)
        /\ last.cutoff = last.prevCutoff =>
              /\ \A t \in TableNames : last.stats[t] = 0
              /\ db = last.before

\* A second run(d) over a database that still holds rows, deleting nothing.
C3_Witness ==
    /\ last.status = "ok"
    /\ last.repeats
    /\ last.cutoff = last.prevCutoff
    /\ \E t \in TableNames : CountRows(last.before[t]) > 0
    /\ db = last.before

\* C3 as stated: the second of two successive run(d), no row inserted in
\* between, deletes nothing and leaves the content as it was.
C3_Idempotent ==
    (last.status = "ok" /\ last.repeats) =>
        /\ \A t \in TableNames : last.stats[t] = 0
        /\ db = last.before

\* C4: the mapping a successful run returns has exactly the eight tables as
\* keys, each with the number of rows of that table created before the
\* cutoff when the call began.
C4_StatsCountOldRows ==
    last.status = "ok" =>
        /\ DOMAIN last.stats =
              {"log", "task_run_state", "task_run", "flow_run_state", "flow_run",
               "event_resources", "events", "artifact"}
        /\ \A t \in DOMAIN last.stats :
              last.stats[t] = RowsBetween(last.before[t], 0, last.cutoff)

\* One old and one recent log row: run reports log: 1 and 0 elsewhere.
C4_Witness ==
    /\ last.status = "ok"
    /\ CountRows(last.before["log"]) = 2
    /\ CountRows(db["log"]) = 1
    /\ last.stats["log"] = 1
    /\ \A t \in TableNames \ {"log"} : last.stats[t] = 0

\* Wherever the DELETE on parent stands among the statements issued, the
\* DELETE on child stands before it.
ChildBeforeParent(child, parent) ==
    \A i \in 1..Len(issued) :
        (issued[i].op = "DELETE" /\ issued[i].table = parent) =>
            \E j \in 1..(i - 1) : issued[j].op = "DELETE" /\ issued[j].table = child

\* C5: the statements of a run are the eight DELETEs in one fixed order,
\* children before parents, each with the cutoff computed when the call
\* began, and one COMMIT, issued only after all eight.
C5_FixedOrderOneCommit ==
    LET order == <<"log", "task_run_state", "task_run", "flow_run_state",
                   "flow_run", "event_resources", "events", "artifact">> IN
    /\ Len(issued) <= 9
    /\ \A i \in 1..Len(issued) :
          IF i <= 8
          THEN /\ issued[i].op = "DELETE"
               /\ issued[i].table = order[i]
               /\ issued[i].cutoff = call.at - days
          ELSE issued[i].op = "COMMIT"
    /\ ChildBeforeParent("task_run_state", "task_run")
    /\ ChildBeforeParent("flow_run_state", "flow_run")
    /\ ChildBeforeParent("task_run", "flow_run")
    /\ ChildBeforeParent("event_resources", "events")
    /\ pc = "return" => Len(issued) = 9
    /\ pc = "commit" => Len(issued) = 8
    /\ last.status = "ok" => last.commits = 1

\* A run that has committed, the clock having advanced since it began.
C5_Witness ==
    /\ pc = "return"
    /\ Len(issued) = 9
    /\ issued[9].op = "COMMIT"
    /\ now > call.at

\* ------------------------------------------------------- health claims
\* C6: when no COUNT query fails, total_records is the sum of the row counts
\* of log, flow_run, task_run and events, table_counts holds exactly those
\* four counts, and total_records > 0 when one of the four is non-empty.
C6_TotalIsSumOfFour ==
    (health.status # "none" /\ health.failed = {}) =>
        /\ health.total_records =
              CountRows(db["log"]) + CountRows(db["flow_run"])
              + CountRows(db["task_run"]) + CountRows(db["events"])
        /\ DOMAIN health.table_counts = {"logs", "flow_runs", "task_runs", "events"}
        /\ health.table_counts["logs"] = [int |-> TRUE, value |-> CountRows(db["log"])]
        /\ health.table_counts["flow_runs"] =
              [int |-> TRUE, value |-> CountRows(db["flow_run"])]
        /\ health.table_counts["task_runs"] =
              [int |-> TRUE, value |-> CountRows(db["task_run"])]
        /\ health.table_counts["events"] =
              [int |-> TRUE, value |-> CountRows(db["events"])]
        /\ (\E t \in {"log", "flow_run", "task_run", "events"} : CountRows(db[t]) > 0)
              => health.total_records > 0

\* A health check without failures over four non-empty tables, the tables
\* it does not count being non-empty too.
C6_Witness ==
    /\ health.status # "none"
    /\ health.failed = {}
    /\ \A t \in {"log", "flow_run", "task_run", "events", "task_run_state"} :
          CountRows(db[t]) > 0
    /\ health.total_records > 3

\* C7: needs_cleanup is false below 100,000 records and true from 100,000
\* on; at 99,999 the status is "healthy".
C7_NeedsCleanupFrom100k ==
    health.status # "none" =>
        /\ health.needs_cleanup <=> health.total_records >= 100000
        /\ health.total_records = 99999 => health.status = "healthy"

\* C8: the recommendation is the text of the half-open band total_records
\* lies in; 1,000,000 records yield the urgent text.
C8_RecommendationBands ==
    health.status # "none" =>
        LET n == health.total_records
            r == health.recommendation
        IN /\ n >= 0
           /\ r \in {"Database is small and healthy",
                     "Database is growing but fine",
                     "Consider monthly cleanup (30 days retention)",
                     "Recommend weekly cleanup (7 days retention)",
                     "URGENT: Database is very large, cleanup immediately"}
           /\ r = "Database is small and healthy" <=> n < 10000
           /\ r = "Database is growing but fine" <=> (10000 <= n /\ n < 100000)
           /\ r = "Consider monthly cleanup (30 days retention)"
                 <=> (100000 <= n /\ n < 500000)
           /\ r = "Recommend weekly cleanup (7 days retention)"
                 <=> (500000 <= n /\ n < 1000000)
           /\ r = "URGENT: Database is very large, cleanup immediately"
                 <=> 1000000 <= n

\* A health check that counted exactly 1,000,000 records.
C8_Witness ==
    /\ health.total_records = 1000000
    /\ health.recommendation = "URGENT: Database is very large, cleanup immediately"

\* C9: whichever COUNT queries fail, health_check returns; the slot of each
\* failed table holds an error marker, the slot of every other table its
\* row count, and total_records is the sum over the tables that succeeded.
C9_PartialFailure ==
    health.status # "none" =>
        LET tableOf == [logs |-> "log", flow_runs |-> "flow_run",
                        task_runs |-> "task_run", events |-> "events"]
            names == {"logs", "flow_runs", "task_runs", "events"}
        IN /\ DOMAIN health.table_counts = names
           /\ \A n \in names :
                 IF n \in health.failed
                 THEN ~health.table_counts[n].int
                 ELSE health.table_counts[n] =
                         [int |-> TRUE, value |-> CountRows(db[tableOf[n]])]
           /\ health.total_records =
                 SumOver([n \in names |-> IF n \in health.failed THEN 0
                                          ELSE CountRows(db[tableOf[n]])], names)

\* A health check in which two queries failed over non-empty tables and the
\* other two counted theirs.
C9_Witness ==
    /\ health.status # "none"
    /\ health.failed = {"logs", "events"}
    /\ CountRows(db["log"]) > 0
    /\ CountRows(db["events"]) > 0
    /\ health.total_records = CountRows(db["flow_run"]) + CountRows(db["task_run"])
    /\ health.total_records > 1

\* ------------------------------------------------------- backup claims
\* What cleanup_old_backups is asked of the files it removed and kept: the
\* kept ones are untouched and none is older than a removed one, and the
\* count returned is the number removed.
KeptAreNewest ==
    LET before == bk.before
        kept == DOMAIN files
        gone == DOMAIN before \ kept
    IN /\ kept \subseteq DOMAIN before
       /\ \A n \in kept : files[n] = before[n]
       /\ \A n \in kept : \A g \in gone : before[n].ctime >= before[g].ctime
       /\ bk.deleted_count = Cardinality(DOMAIN before) - Cardinality(kept)

\* C10 as amended: after cleanup_old_backups(k) with k >= 0 exactly
\* min(k, existing_count) backup files remain; with k < 0 the -k oldest are
\* removed and max(existing_count + k, 0) remain.  In both cases the files
\* that remain are the most recently created ones and deleted_count is
\* existing_count minus the number remaining.
C10_KeepNewest ==
    bk.op = "cleanup" =>
        LET n == Cardinality(DOMAIN bk.before)
            k == bk.keep_count
        IN /\ k >= 0 => Cardinality(DOMAIN files) = Min(k, n)
           /\ k < 0 => Cardinality(DOMAIN files) = Max(n + k, 0)
           /\ KeptAreNewest

\* Three backups of different ages, pruned to the newest one.
C10_Witness ==
    /\ bk.op = "cleanup"
    /\ bk.keep_count = 1
    /\ bk.deleted_count = 2
    /\ Cardinality(DOMAIN bk.before) = 3
    /\ \E n \in DOMAIN files : \A g \in DOMAIN bk.before \ {n} :
          bk.before[g].ctime < files[n].ctime

\* C10 as stated: for every keep_count k exactly min(k, existing_count)
\* backup files remain, the most recently created ones, and deleted_count
\* is existing_count minus the number remaining.
C10_KeepMinOfKAndCount ==
    bk.op = "cleanup" =>
        /\ Cardinality(DOMAIN files) = Min(bk.keep_count, Cardinality(DOMAIN bk.before))
        /\ KeptAreNewest

\* ------------------------------------------------- backup create claims
\* The source file of a file-based database is missing: the path that
\* _backup_sqlite computes names no existing file.
SourceMissing == ~srcExists \/ DbFile(url) # <<"prefect.db">>

\* The connection string contains "sqlite" in some spelling of its case.
ContainsSqlite(u) == \E i \in 1..Len(u) : u[i] \in {"sqlite", "SQLite"}

\* C11: for a file-based database with no concurrent writer, after
\* create(name) has returned a path, the file <name>.backup exists in the
\* backup directory (a default name carries the second of its creation), its
\* content is the content the source had when create was called, and the
\* source is unchanged.
C11_CopyIsSource ==
    (bk.op = "create" /\ bk.strategy = "copy" /\ bk.status = "ok") =>
        /\ bk.name \in DOMAIN files
        /\ bk.name \in GivenNames \/ bk.name = TimestampName(files[bk.name].ctime)
        /\ files[bk.name].content = bk.source
        /\ db = bk.source

\* create("nightly") has copied a database that holds rows.
C11_Witness ==
    /\ bk.op = "create"
    /\ bk.strategy = "copy"
    /\ bk.status = "ok"
    /\ bk.name \in GivenNames
    /\ \E t \in DOMAIN bk.source : CountRows(bk.source[t]) > 0

\* C12: a create() on a file-based database whose source file does not exist
\* ends in FileNotFoundError, returns no path, and leaves the backup
\* directory as it was: no file created, none modified.  (A step that keeps
\* the clock and the source and ends with a create outcome is a create.)
C12_MissingSourceFails ==
    [][(/\ SourceMissing
        /\ now' = now
        /\ srcExists' = srcExists
        /\ bk'.op = "create"
        /\ bk'.strategy = "copy") =>
            /\ bk'.status = "FileNotFoundError"
            /\ files' = files]_vars

\* The source was removed after a first backup; the second create of the
\* same name failed and the first backup is still there, untouched.
C12_Witness ==
    /\ bk.op = "create"
    /\ bk.status = "FileNotFoundError"
    /\ ~srcExists
    /\ bk.name \in DOMAIN files
    /\ files = bk.before

\* C13: create() copies the file exactly when the connection string contains
\* "sqlite" (in any case, anywhere in the string) and runs pg_dump otherwise,
\* whatever the source file or the backup directory hold; on the pg_dump path
\* it returns a path exactly when the exit code is zero and raises
\* RuntimeError on every other exit code.
C13_StrategyFromUrl ==
    bk.op = "create" =>
        /\ bk.strategy = "copy" <=> ContainsSqlite(url)
        /\ bk.strategy = "dump" <=> ~ContainsSqlite(url)
        /\ bk.strategy = "dump" =>
              /\ bk.status = "ok" <=> bk.rc = 0
              /\ bk.rc # 0 => bk.status = "RuntimeError"

\* pg_dump exited with code 2 after it had written part of the file.
C13_Witness ==
    /\ bk.op = "create"
    /\ bk.strategy = "dump"
    /\ bk.rc = 2
    /\ bk.status = "RuntimeError"
    /\ bk.name \in DOMAIN files
    /\ bk.name \notin DOMAIN bk.before

\* C18: every successful create() adds exactly one backup file and changes
\* no backup file that existed before it, so that list_backups reports one
\* backup more after each.
C18_CreateAddsOne ==
    (bk.op = "create" /\ bk.status = "ok") =>
        /\ TotalBackups(files) = TotalBackups(bk.before) + 1
        /\ \A n \in DOMAIN bk.before : files[n] = bk.before[n]

\* ------------------------------------------- referential integrity claim
\* The table each child table's rows point into.
ParentOf ==
    [task_run_state |-> "task_run", flow_run_state |-> "flow_run",
     task_run |-> "flow_run", event_resources |-> "events"]

\* Every child row can have a parent: a row of the parent table created no
\* later than the child.  Rows carry no identity in a bag, so this is what
\* referential integrity demands of the rows' dates alone; a child left
\* without any such row has lost the parent it referenced.
HasParents(d) ==
    \A child \in DOMAIN ParentOf : \A c \in DOMAIN d[child] :
        d[child][c] > 0 =>
            \E p \in DOMAIN d[ParentOf[child]] : p <= c /\ d[ParentOf[child]][p] > 0

\* C17: run(d) preserves referential integrity: when every child row had a
\* parent row created no later than itself before the call, every child row
\* that survives a successful run still has one.
C17_ChildrenKeepParents ==
    (last.status = "ok" /\ HasParents(last.before)) => HasParents(db)

\* --------------------------------------------------------- script claims
\* cleanup.run has been called: it is in progress or has ended.
RunCalled == pc # "idle" \/ last.status # "none"

\* The content the database had when the run now in progress or just ended
\* was called.
BeforeRun == IF pc # "idle" THEN call.before ELSE last.before

\* C14: in quick_cleanup(days, backup=True) the backup is complete before
\* run is called, hence before its first DELETE: from the call of run on,
\* the backup file exists and holds at least every row the run deletes; and
\* when create raises, run is never called, no statement is issued and the
\* database holds what it held.
C14_BackupBeforeDelete ==
    /\ (RunCalled /\ bk.op # "skipped") =>
          /\ bk.op = "create"
          /\ bk.status = "ok"
          /\ bk.name \in DOMAIN files
          /\ \A t \in TableNames : \A c \in Times :
                files[bk.name].content[t][c] >= BeforeRun[t][c] - db[t][c]
    /\ (bk.op = "create" /\ bk.status # "ok") =>
          /\ ~RunCalled
          /\ issued = <<>>
          /\ db = bk.source

\* A backup was taken, a day passed, and the run that followed deleted rows
\* that the backup holds.
C14_Witness ==
    /\ bk.op = "create"
    /\ bk.status = "ok"
    /\ last.status = "ok"
    /\ last.at > files[bk.name].ctime
    /\ \E t \in TableNames : last.stats[t] > 0 /\ CountRows(db[t]) < CountRows(files[bk.name].content[t])

\* The content the database had when the production workflow began.
PreWorkflow == IF last.status # "none" THEN last.before ELSE db

\* C15: whenever a step of the production workflow raises and its error
\* handler is reached, a backup of the pre-workflow content exists and the
\* database holds exactly its pre-workflow rows.
C15_BackedUpAndUnchanged ==
    HandlerReached =>
        /\ \E n \in DOMAIN files : files[n].content = PreWorkflow
        /\ db = PreWorkflow

\* ------------------------------------------------------ concurrency claim
\* C16: a backup of a file-based database taken while a run is writing is
\* not guaranteed consistent.  create() takes no lock and no snapshot: each
\* piece the copy adds to the backup is the piece as the database file holds
\* it at that moment, whatever the run has committed since the copy began.
\* The witness is the interleaving the claim speaks of.
C16_CopyReadsLiveFile ==
    [][(bk.op = "create" /\ bk.status = "copying" /\ files' # files) =>
            \A t \in DOMAIN files'[bk.name].content \ DOMAIN files[bk.name].content :
                files'[bk.name].content[t] = db[t]]_vars

\* A copy overlapped a run's commit: the finished backup holds neither what
\* the database held before the run nor what it holds after it.
C16_Witness ==
    /\ bk.op = "create"
    /\ bk.strategy = "copy"
    /\ bk.status = "ok"
    /\ last.status = "ok"
    /\ files[bk.name].content # last.before
    /\ files[bk.name].content # db

====
